---- MODULE Spec2Model ----
(***************************************************************************)
(* A model of AlCardstackView (src/src/cardstack/al-cardstack-view.ts):   *)
(* the view state, the start/continue lifecycle with its suspension       *)
(* points, the filter/search/sort evaluation and the two pagination       *)
(* strategies.                                                             *)
(*                                                                         *)
(* Card objects live in `heap` and the three arrays rawCards,              *)
(* filteredCards and cards hold references (indices into heap), because    *)
(* the code mutates cards in place (visible, checked) and shares them     *)
(* between the arrays.  Two arrays may also be the SAME array object;      *)
(* rawIsFiltered and cardsIsFiltered record that.                          *)
(***************************************************************************)
EXTENDS Integers, Sequences, FiniteSets, TLC

(***************************************************************************)
(* Bounds of the model.                                                    *)
(***************************************************************************)
\* the longest page a fetchData( true ) returns
MaxPageLen == 3
\* the longest page a fetchData( false ) returns
MaxContinueLen == 1
\* the most pages the remote collaborator announces after the first fetch
MaxRemaining == 2
\* the largest itemsPerPage a view is configured with
MaxItemsPerPage == 2
\* how far below zero continue() is let to take remainingPages
MaxOverrun == 1

(***************************************************************************)
(* JavaScript values, tagged by kind.  Strings are sequences of            *)
(* one-character strings so that RegExp.test and localeCompare can look    *)
(* inside them.                                                            *)
(***************************************************************************)
Undefined == [kind |-> "undefined"]
Str(chars) == [kind |-> "string", chars |-> chars]
Num(n) == [kind |-> "number", num |-> n]
Arr(elems) == [kind |-> "array", elems |-> elems]
\* an object literal { value: v }
Obj(v) == [kind |-> "object", value |-> v]

\* a === b for the values above (arrays and objects compare by reference,
\* and no descriptor value is the very array or object a card holds)
StrictEquals(a, b) ==
    /\ a.kind = b.kind
    /\ CASE a.kind = "undefined" -> TRUE
         [] a.kind = "string" -> a.chars = b.chars
         [] a.kind = "number" -> a.num = b.num
         [] OTHER -> FALSE

\* the truthiness of a value: "", 0 and undefined are falsy
Truthy(v) ==
    CASE v.kind = "undefined" -> FALSE
      [] v.kind = "string" -> v.chars # <<>>
      [] v.kind = "number" -> v.num # 0
      [] OTHER -> TRUE

\* v.value: the member access of line 348, undefined on a string or a number
ValueMember(v) == IF v.kind = "object" THEN v.value ELSE Undefined

DigitChars == <<"0", "1", "2", "3", "4", "5", "6", "7", "8", "9">>

RECURSIVE NatToChars(_)
NatToChars(n) ==
    IF n < 10 THEN <<DigitChars[n + 1]>>
    ELSE NatToChars(n \div 10) \o <<DigitChars[(n % 10) + 1]>>

ObjectObjectChars ==
    <<"[", "o", "b", "j", "e", "c", "t", " ", "O", "b", "j", "e", "c", "t", "]">>

\* String( v ), the conversion RegExp.prototype.test applies to its argument
\* (test() is handed strings, numbers and { value: ... } objects here)
ToStringChars(v) ==
    CASE v.kind = "string" -> v.chars
      [] v.kind = "number" -> NatToChars(v.num)
      [] v.kind = "undefined" -> <<"u", "n", "d", "e", "f", "i", "n", "e", "d">>
      [] OTHER -> ObjectObjectChars

\* a non-global RegExp whose source is a literal: it matches the strings
\* that contain the literal
IsSubstring(pat, s) ==
    \E i \in 0..(Len(s) - Len(pat)) :
        \A j \in 1..Len(pat) : s[i + j] = pat[j]

\* search.test( value )
RegExpTest(search, v) == IsSubstring(search.source, ToStringChars(v))

NullPattern == [isNull |-> TRUE, source |-> <<>>]
Pattern(chars) == [isNull |-> FALSE, source |-> chars]

(***************************************************************************)
(* The entities the data source holds and deriveEntityProperties, the      *)
(* subclass's pure projection from an entity to its properties.            *)
(***************************************************************************)
Entities == {"e1", "e2", "e3"}

DeriveEntityProperties(entity) ==
    CASE entity = "e1" ->
            [id |-> Str(<<"1">>), caption |-> Str(<<"b">>),
             status |-> Str(<<"u", "p">>),
             tags |-> Arr(<<Str(<<"a">>), Str(<<"b">>)>>),
             n |-> Num(3)]
      [] entity = "e2" ->
            [id |-> Str(<<"2">>), caption |-> Str(<<"a">>),
             status |-> Str(<<"d", "n">>),
             tags |-> Arr(<<Str(<<>>), Num(0)>>),
             n |-> Num(1)]
      [] OTHER ->
            [id |-> Str(<<"3">>), caption |-> Str(<<"c">>),
             status |-> Obj(Str(<<"u", "p">>)),
             n |-> Num(2)]

\* properties[property], undefined when the object has no such property
GetProperty(properties, property) ==
    IF property \in DOMAIN properties THEN properties[property] ELSE Undefined

\* card.properties.hasOwnProperty( property ) && typeof( ... ) !== 'undefined'
HasDefined(properties, property) ==
    /\ property \in DOMAIN properties
    /\ properties[property].kind # "undefined"

(***************************************************************************)
(* Value descriptors as the active filters hold them.                      *)
(***************************************************************************)
ValueDescriptor(property, valueKey, value) ==
    [property |-> property, valueKey |-> valueKey, value |-> value]

StatusUp == ValueDescriptor("status", <<"status", "-", "u", "p">>, Str(<<"u", "p">>))
StatusDn == ValueDescriptor("status", <<"status", "-", "d", "n">>, Str(<<"d", "n">>))
TagsA == ValueDescriptor("tags", <<"tags", "-", "a">>, Str(<<"a">>))

\* the descriptors a caller hands to applyFilterBy / removeFilterBy
FilterDescriptors == {StatusUp, StatusDn, TagsA}

\* the patterns a caller hands to applyTextFilter
SearchPatterns == {NullPattern, Pattern(<<"b">>), Pattern(<<"0">>)}

(***************************************************************************)
(* The visibility evaluator (lines 332-402).                               *)
(***************************************************************************)
\* lines 344-349: does one value descriptor match the card's property value
DescriptorMatches(valDescriptor, cardPropValue) ==
    IF cardPropValue.kind = "array"
    THEN \E i \in 1..Len(cardPropValue.elems) :
            StrictEquals(cardPropValue.elems[i], valDescriptor.value)
    ELSE StrictEquals(valDescriptor.value, ValueMember(cardPropValue))

EvaluateCardVisibilityByFilter(properties, filters) ==
    IF DOMAIN filters = {}
    THEN TRUE
    ELSE \A property \in DOMAIN filters :
            /\ HasDefined(properties, property)
            /\ \E valueKey \in DOMAIN filters[property] :
                  DescriptorMatches(filters[property][valueKey],
                                    properties[property])

\* cardPropValue.find( value => search.test( value ) ): the first matching
\* element, undefined when there is none
FindMatch(elems, search) ==
    LET hits == {i \in 1..Len(elems) : RegExpTest(search, elems[i])}
    IN IF hits = {} THEN Undefined
       ELSE elems[CHOOSE i \in hits : \A j \in hits : i <= j]

\* lines 370-385: one searchable property of the card against the pattern
SearchableMatches(properties, property, search) ==
    /\ HasDefined(properties, property)
    /\ IF properties[property].kind = "array"
       THEN Truthy(FindMatch(properties[property].elems, search))
       ELSE RegExpTest(search, properties[property])

\* chars: the view's characteristics and whether it has any
EvaluateCardVisibilityBySearch(properties, search, hasChars, chars) ==
    IF search.isNull
    THEN TRUE
    ELSE IF hasChars /\ chars.searchableBy.defined
         THEN IF Len(chars.searchableBy.list) = 0
              THEN TRUE
              ELSE \E i \in 1..Len(chars.searchableBy.list) :
                      SearchableMatches(properties, chars.searchableBy.list[i],
                                        search)
         ELSE FALSE

\* the value evaluateCardState leaves in card.visible
EvaluateCardState(properties, search, filters, hasChars, chars) ==
    /\ EvaluateCardVisibilityBySearch(properties, search, hasChars, chars)
    /\ EvaluateCardVisibilityByFilter(properties, filters)

(***************************************************************************)
(* Characteristics and their normalization (lines 408-461).                *)
(***************************************************************************)
\* an optional collection of the characteristics object
Absent == [defined |-> FALSE, list |-> <<>>]
Given(list) == [defined |-> TRUE, list |-> list]
\* collection || []
OrEmpty(collection) == IF collection.defined THEN collection ELSE Given(<<>>)

\* a value descriptor as the caller writes it: its property is filled in by
\* the normalization, its valueKey too when it has none
RawValue(value, hasValueKey, valueKey, default) ==
    [value |-> value, hasValueKey |-> hasValueKey, valueKey |-> valueKey,
     default |-> default, property |-> ""]

PropertyDescriptor(property, hasValues, values) ==
    [property |-> property, hasValues |-> hasValues, values |-> values]

\* an entry of sortableBy / filterableBy / groupableBy: a key or a descriptor
KeyItem(key) ==
    [isString |-> TRUE, key |-> key,
     descriptor |-> PropertyDescriptor(key, FALSE, <<>>)]
RawItem(descriptor) ==
    [isString |-> FALSE, key |-> descriptor.property, descriptor |-> descriptor]

NoDefinitions == [key \in {} |-> PropertyDescriptor("", FALSE, <<>>)]

CaptionDescriptor == PropertyDescriptor("caption", FALSE, <<>>)
NDescriptor == PropertyDescriptor("n", FALSE, <<>>)
StatusDescriptor ==
    PropertyDescriptor("status", TRUE,
        <<RawValue(Str(<<"u", "p">>), FALSE, <<>>, TRUE),
          RawValue(Str(<<"d", "n">>), FALSE, <<>>, FALSE)>>)
TagsDescriptor ==
    PropertyDescriptor("tags", TRUE,
        <<RawValue(Str(<<"a">>), TRUE, <<"tags", "-", "a">>, FALSE)>>)

\* the characteristics a caller constructs a view with, or generates
BaseCharacteristics(searchableBy, greedyConsumer) ==
    [groupableBy |-> Absent,
     sortableBy |-> Given(<<KeyItem("caption"), RawItem(NDescriptor)>>),
     filterableBy |-> Given(<<RawItem(StatusDescriptor), RawItem(TagsDescriptor)>>),
     definitions |-> ("caption" :> CaptionDescriptor),
     searchableBy |-> searchableBy,
     filterValueLimit |-> 0,
     filterValueIncrement |-> 0,
     greedyConsumer |-> greedyConsumer]

SearchTagsStatus == Given(<<"tags", "status">>)

\* a raw descriptor for a key that definitions holds already
DuplicateInDefinitions ==
    [BaseCharacteristics(SearchTagsStatus, FALSE) EXCEPT
        !.definitions = ("caption" :> CaptionDescriptor) @@ ("status" :> StatusDescriptor)]
\* two raw descriptors for the same key
DuplicateInLists ==
    [BaseCharacteristics(SearchTagsStatus, FALSE) EXCEPT
        !.groupableBy = Given(<<RawItem(NDescriptor)>>)]
\* a key that definitions does not hold
UnknownKey ==
    [BaseCharacteristics(SearchTagsStatus, FALSE) EXCEPT
        !.groupableBy = Given(<<KeyItem("owner")>>)]

GoodCharacteristics ==
    {BaseCharacteristics(SearchTagsStatus, FALSE),
     BaseCharacteristics(SearchTagsStatus, TRUE),
     BaseCharacteristics(Given(<<>>), FALSE),
     BaseCharacteristics(Absent, FALSE)}

BadCharacteristics == {DuplicateInDefinitions, DuplicateInLists, UnknownKey}

\* the value of this.characteristics before any is set (never read: every
\* read is guarded by hasCharacteristics)
NoCharacteristics ==
    [groupableBy |-> Absent, sortableBy |-> Absent, filterableBy |-> Absent,
     definitions |-> NoDefinitions, searchableBy |-> Absent,
     filterValueLimit |-> 0, filterValueIncrement |-> 0,
     greedyConsumer |-> FALSE]

\* resolveDescriptor letting a raw descriptor replace a registered one
ResolveDescriptorReplacing(chars, item) ==
    IF item.isString
    THEN IF item.key \in DOMAIN chars.definitions
         THEN [ok |-> TRUE, error |-> "", chars |-> chars,
               descriptor |-> chars.definitions[item.key]]
         ELSE [ok |-> FALSE, error |-> "not found in definitions dictionary",
               chars |-> chars, descriptor |-> item.descriptor]
    ELSE [ok |-> TRUE, error |-> "",
          chars |-> [chars EXCEPT !.definitions =
                       (item.descriptor.property :> item.descriptor) @@ @],
          descriptor |-> item.descriptor]

\* lines 445-461: the descriptor of a list entry, and the definitions after
ResolveDescriptor(chars, item) ==
    IF item.isString
    THEN IF item.key \in DOMAIN chars.definitions
         THEN [ok |-> TRUE, error |-> "", chars |-> chars,
               descriptor |-> chars.definitions[item.key]]
         ELSE [ok |-> FALSE, error |-> "not found in definitions dictionary",
               chars |-> chars, descriptor |-> item.descriptor]
    ELSE IF item.descriptor.property \in DOMAIN chars.definitions
         THEN [ok |-> FALSE, error |-> "multiple descriptors for the property",
               chars |-> chars, descriptor |-> item.descriptor]
         ELSE [ok |-> TRUE, error |-> "",
               chars |-> [chars EXCEPT !.definitions =
                            (item.descriptor.property :> item.descriptor) @@ @],
               descriptor |-> item.descriptor]

\* lines 426-433: the descriptor with values, each with property and valueKey
NormalizeValues(propDescriptor) ==
    [propDescriptor EXCEPT
        !.hasValues = TRUE,
        !.values = [i \in 1..Len(propDescriptor.values) |->
            [propDescriptor.values[i] EXCEPT
                !.property = propDescriptor.property,
                !.hasValueKey = TRUE,
                !.valueKey =
                    IF propDescriptor.values[i].hasValueKey
                    THEN @
                    ELSE <<propDescriptor.property, "-">>
                            \o ToStringChars(propDescriptor.values[i].value)]]]

\* lines 434-436: the default values of a descriptor, added to the LOCAL map
\* activeFilters of normalizeCharacteristics, keyed by valueKey
CollectDefaults(localFilters, propDescriptor) ==
    LET defaults == {i \in 1..Len(propDescriptor.values) :
                        propDescriptor.values[i].default}
        keys == {propDescriptor.values[i].valueKey : i \in defaults}
    IN [valueKey \in keys \cup DOMAIN localFilters |->
           IF valueKey \in keys
           THEN LET i == CHOOSE j \in defaults :
                            /\ propDescriptor.values[j].valueKey = valueKey
                            /\ \A l \in defaults :
                                  propDescriptor.values[l].valueKey = valueKey
                                     => l <= j
                IN ValueDescriptor(propDescriptor.property, valueKey,
                                   propDescriptor.values[i].value)
           ELSE localFilters[valueKey]]

\* lines 424-438: the forEach over the listed properties, from entry i on
RECURSIVE NormalizeFrom(_, _, _, _)
NormalizeFrom(chars, properties, i, localFilters) ==
    IF i > Len(properties)
    THEN [ok |-> TRUE, error |-> "", characteristics |-> chars,
          localFilters |-> localFilters]
    ELSE LET resolved == ResolveDescriptor(chars, properties[i])
         IN IF ~resolved.ok
            THEN [ok |-> FALSE,
                  error |-> "Failed to normalize characteristics object: "
                               \o resolved.error,
                  characteristics |-> chars, localFilters |-> localFilters]
            ELSE LET propDescriptor == NormalizeValues(resolved.descriptor)
                     next == [resolved.chars EXCEPT
                                !.definitions[propDescriptor.property] =
                                    propDescriptor]
                 IN NormalizeFrom(next, properties, i + 1,
                                  CollectDefaults(localFilters, propDescriptor))

\* lines 408-443.  The result's characteristics is what this.characteristics
\* holds afterwards, also when the normalization failed (line 416 stores the
\* object before the descriptors are resolved); localFilters is the local
\* variable activeFilters, which the method drops.
NormalizeCharacteristics(raw) ==
    LET chars == [raw EXCEPT
                    !.groupableBy = OrEmpty(@),
                    !.sortableBy = OrEmpty(@),
                    !.filterableBy = OrEmpty(@),
                    !.filterValueLimit = IF @ = 0 THEN 10 ELSE @,
                    !.filterValueIncrement = IF @ = 0 THEN 10 ELSE @]
        properties == chars.sortableBy.list \o chars.filterableBy.list
                         \o chars.groupableBy.list
    IN NormalizeFrom(chars, properties, 1,
                     [valueKey \in {} |-> StatusUp])

(***************************************************************************)
(* Helpers on numbers and sequences.                                       *)
(***************************************************************************)
Min(a, b) == IF a <= b THEN a ELSE b
Abs(a) == IF a < 0 THEN 0 - a ELSE a

RECURSIVE Gcd(_, _)
Gcd(a, b) == IF b = 0 THEN a ELSE Gcd(b, a % b)

\* the number num / den (den > 0), in lowest terms
Rational(num, den) ==
    LET g == Gcd(Abs(num), den)
    IN [num |-> num \div g, den |-> den \div g]

Whole(n) == [num |-> n, den |-> 1]
Positive(r) == r.num > 0

\* array.slice( from, to ) with 0-based from and exclusive to
Slice(array, from, to) == SubSeq(array, from + 1, Min(to, Len(array)))

Range(array) == {array[i] : i \in 1..Len(array)}

\* the sequences of distinct entities of the given ones, of length at most n
PagesUpTo(entities, n) ==
    UNION {{page \in [1..k -> entities] :
                \A i, j \in 1..k : page[i] = page[j] => i = j} : k \in 0..n}

(***************************************************************************)
(* The state of a view (lines 17-48) and of the call in flight.            *)
(***************************************************************************)
VARIABLES
    characteristics,    \* this.characteristics, when hasCharacteristics
    hasCharacteristics, \* this.characteristics is not undefined
    hasGenerate,        \* the subclass provides generateCharacteristics
    loading,
    loadedPages,
    remainingPages,     \* a rational: local pagination divides
    localPagination,
    itemsPerPage,
    heap,               \* the card objects ingested since the last start
    rawCards,           \* the three arrays hold references into heap
    filteredCards,
    cards,
    rawIsFiltered,      \* rawCards and filteredCards are the same array
    cardsIsFiltered,    \* cards and filteredCards are the same array
    visibleCards,
    textFilter,
    checked,
    activeFilters,
    pc,                 \* where the start() or continue() in flight awaits
    pending,            \* the collaborator calls the call in flight has made
    calls,              \* the collaborator calls of the last call returned
    ret,                \* the last call returned and how it ended
    roundTrip,          \* history: the applyFilterBy that the last call was,
                        \* or that the last call, a removeFilterBy, followed
    fetched,            \* history: the entities the last fetchData resolved
                        \* with
    generatedRaw        \* history: the characteristics the last
                        \* generateCharacteristics resolved with

vars == <<characteristics, hasCharacteristics, hasGenerate, loading,
          loadedPages, remainingPages, localPagination, itemsPerPage, heap,
          rawCards, filteredCards, cards, rawIsFiltered, cardsIsFiltered,
          visibleCards, textFilter, checked, activeFilters, pc, pending,
          calls, ret, roundTrip, fetched,
          generatedRaw>>

config == <<hasGenerate, localPagination, itemsPerPage>>
arrays == <<rawCards, filteredCards, cards, rawIsFiltered, cardsIsFiltered>>
counters == <<loadedPages, remainingPages>>
schema == <<characteristics, hasCharacteristics>>

\* line 26: the initial itemsPerPage
DefaultItemsPerPage == 50

NoFilters == [property \in {} |-> [valueKey \in {} |-> StatusUp]]

\* the last call is no applyFilterBy and no removeFilterBy after one
NoRoundTrip == [stage |-> "none", from |-> NoFilters, descriptor |-> StatusUp]

\* a call returned: the operation, how it ended and the arguments it had
Returned(op, outcome, args) == [op |-> op, outcome |-> outcome, args |-> args]

\* a call to the collaborator, and remainingPages when it was made
Called(call) == [call |-> call, remaining |-> remainingPages]

\* the constructor (lines 50-54) with the property initializers.  A view is
\* built with characteristics of `given`, which normalize, or with none and
\* then with or without a generateCharacteristics method, as `generates`
\* says; localPagination and itemsPerPage are set before the first call.
InitView(given, generates, locals, perPages) ==
    /\ \/ \E raw \in given :
            /\ characteristics = NormalizeCharacteristics(raw).characteristics
            /\ hasCharacteristics = TRUE
            /\ hasGenerate = FALSE
       \/ /\ characteristics = NoCharacteristics
          /\ hasCharacteristics = FALSE
          /\ hasGenerate \in generates
    /\ loading = FALSE
    /\ loadedPages = 0
    /\ remainingPages = Whole(1)
    /\ localPagination \in locals
    /\ itemsPerPage \in (IF localPagination THEN perPages
                         ELSE {DefaultItemsPerPage})
    /\ heap = <<>>
    /\ rawCards = <<>>
    /\ filteredCards = <<>>
    /\ cards = <<>>
    /\ rawIsFiltered = FALSE
    /\ cardsIsFiltered = FALSE
    /\ visibleCards = 0
    /\ textFilter = NullPattern
    /\ checked = FALSE
    /\ activeFilters = NoFilters
    /\ pc = "idle"
    /\ pending = <<>>
    /\ calls = <<>>
    /\ ret = Returned("constructor", "ok", <<>>)
    /\ roundTrip = NoRoundTrip
    /\ fetched = <<>>
    /\ generatedRaw = NoCharacteristics

(***************************************************************************)
(* Cards.                                                                  *)
(***************************************************************************)
\* ingest taking the entities last to first
IngestReversed(entities) ==
    [i \in 1..Len(entities) |->
        LET properties ==
                DeriveEntityProperties(entities[Len(entities) + 1 - i])
        IN [entity |-> entities[Len(entities) + 1 - i], id |-> properties.id,
            caption |-> properties.caption,
            visible |-> "undefined", checked |-> "undefined"]]

\* lines 317-326: the cards of a page, as new objects after those of heap
Ingest(entities) ==
    [i \in 1..Len(entities) |->
        LET properties == DeriveEntityProperties(entities[i])
        IN [entity |-> entities[i], id |-> properties.id,
            caption |-> properties.caption,
            visible |-> "undefined", checked |-> "undefined"]]

PropertiesOf(h, ref) == DeriveEntityProperties(h[ref].entity)

\* does evaluateCardState find the card visible under the given query
Passes(h, ref, search, filters, hasChars, chars) ==
    EvaluateCardState(PropertiesOf(h, ref), search, filters, hasChars, chars)

\* array.map( c => this.evaluateCardState( c ) ): the heap afterwards
EvaluateAll(h, array, search, filters, hasChars, chars) ==
    [ref \in DOMAIN h |->
        IF ref \in Range(array)
        THEN [h[ref] EXCEPT !.visible =
                IF Passes(h, ref, search, filters, hasChars, chars)
                THEN "true" ELSE "false"]
        ELSE h[ref]]

\* lines 259-264: the heap after markCardsAsCheck over the given array
MarkCardsAsCheck(h, array, value) ==
    [ref \in DOMAIN h |->
        IF ref \in Range(array)
        THEN [h[ref] EXCEPT !.checked = IF value THEN "true" ELSE "false"]
        ELSE h[ref]]

\* line 305: the number of cards of the array with a truthy visible
CountVisible(h, array) ==
    Cardinality({i \in 1..Len(array) : h[array[i]].visible = "true"})

(***************************************************************************)
(* Sorting (lines 209-227).                                                *)
(***************************************************************************)
Alphabet ==
    <<"0", "1", "2", "3", "4", "5", "6", "7", "8", "9",
      "a", "b", "c", "d", "e", "f", "g", "h", "i", "j", "k", "l", "m",
      "n", "o", "p", "q", "r", "s", "t", "u", "v", "w", "x", "y", "z">>

CharRank(c) == CHOOSE i \in 1..Len(Alphabet) : Alphabet[i] = c

\* a.localeCompare( b ) for strings of digits and lower-case letters
RECURSIVE LocaleCompare(_, _)
LocaleCompare(a, b) ==
    IF a = <<>> /\ b = <<>> THEN 0
    ELSE IF a = <<>> THEN 0 - 1
    ELSE IF b = <<>> THEN 1
    ELSE IF CharRank(Head(a)) < CharRank(Head(b)) THEN 0 - 1
    ELSE IF CharRank(Head(a)) > CharRank(Head(b)) THEN 1
    ELSE LocaleCompare(Tail(a), Tail(b))

\* the comparator's two typeof tests: can it compare the two values
Comparable(va, vb) ==
    \/ va.kind = "string" /\ vb.kind = "string"
    \/ va.kind = "number" /\ vb.kind = "number"

\* the comparator taking numbers in descending order whatever the order
CompareValuesDescending(va, vb, order) ==
    IF va.kind = "string"
    THEN LocaleCompare(va.chars, vb.chars)
    ELSE vb.num - va.num

\* lines 213-220: the comparator on two comparable values
CompareValues(va, vb, order) ==
    IF va.kind = "string"
    THEN LocaleCompare(va.chars, vb.chars)
    ELSE IF order = "ASC"
         THEN va.num - vb.num
         ELSE vb.num - va.num

\* the value the comparator reads from a card
SortValue(h, ref, property) == GetProperty(PropertiesOf(h, ref), property)

\* the comparator throws on some pair it is handed: with two cards or more
\* every card is compared, and values that are not all strings or all
\* numbers put an incomparable pair in front of the comparator
SortThrows(h, array, property) ==
    /\ Len(array) >= 2
    /\ ~(\/ \A i \in 1..Len(array) : SortValue(h, array[i], property).kind = "string"
         \/ \A i \in 1..Len(array) : SortValue(h, array[i], property).kind = "number")

\* x put into a sorted array behind every element that does not follow it
InsertSorted(h, sorted, x, property, order) ==
    LET before == {i \in 1..Len(sorted) :
                      CompareValues(SortValue(h, sorted[i], property),
                                    SortValue(h, x, property), order) <= 0}
        k == IF before = {} THEN 0
             ELSE CHOOSE i \in before : \A j \in before : j <= i
    IN SubSeq(sorted, 1, k) \o <<x>> \o SubSeq(sorted, k + 1, Len(sorted))

\* Array.prototype.sort with the comparator: a stable sort
RECURSIVE SortCards(_, _, _, _)
SortCards(h, array, property, order) ==
    IF array = <<>> THEN <<>>
    ELSE InsertSorted(h,
            SortCards(h, SubSeq(array, 1, Len(array) - 1), property, order),
            array[Len(array)], property, order)

\* the orders an array can be left in when the comparator throws
Reorderings(array) ==
    {[i \in 1..Len(array) |-> array[f[i]]] :
        f \in {g \in [1..Len(array) -> 1..Len(array)] :
                  \A i, j \in 1..Len(array) : g[i] = g[j] => i = j}}

SortProperties == {"caption", "n", "status"}
SortOrders == {"ASC", "DESC", "asc"}

(***************************************************************************)
(* Pagination and materialization.                                         *)
(***************************************************************************)
\* resetPagination with the quotient rounded down to whole pages
ResetPaginationRounded(total, loaded, remaining) ==
    IF itemsPerPage # 0
    THEN [loadedPages |-> 0, remainingPages |-> Whole(total \div itemsPerPage)]
    ELSE [loadedPages |-> loaded, remainingPages |-> remaining]

\* lines 136-141: loadedPages and remainingPages after resetPagination
ResetPagination(total, loaded, remaining) ==
    IF itemsPerPage # 0
    THEN [loadedPages |-> 0, remainingPages |-> Rational(total, itemsPerPage)]
    ELSE [loadedPages |-> loaded, remainingPages |-> remaining]

\* startPagination taking the window after the cards materialized so far
WindowAfterCards(filtered) ==
    Slice(filtered, Len(cards), Len(cards) + itemsPerPage)

\* line 100: the window startPagination takes from the filtered cards
FirstWindow(filtered) ==
    Slice(filtered, 0, Min(itemsPerPage, Len(filtered)))

\* lines 297-310: addNextSection.  window is this.cards with the new data
\* pushed; the result is the heap after the cards were evaluated (and, under
\* local pagination, marked) and the count of visible cards
AddNextSection(h, window) ==
    LET evaluated == EvaluateAll(h, window, textFilter, activeFilters,
                                 hasCharacteristics, characteristics)
    IN [heap |-> IF localPagination
                 THEN MarkCardsAsCheck(evaluated, window, checked)
                 ELSE evaluated,
        visibleCards |-> CountVisible(evaluated, window)]

\* continue() calling itself again only with more than a page left
GreedyAboveOne(remaining) ==
    /\ hasCharacteristics
    /\ characteristics.greedyConsumer
    /\ remaining.num > remaining.den

\* line 125: does continue() call itself again
Greedy(remaining) ==
    /\ hasCharacteristics
    /\ characteristics.greedyConsumer
    /\ Positive(remaining)

\* lines 172-177: the window applyFiltersAndSearch leaves in this.cards
Materialized(filtered) ==
    IF localPagination THEN FirstWindow(filtered) ELSE filtered

\* lines 168-183: applyFiltersAndSearch under the pattern `search`, with
\* rawCards in the order `raw`
FiltersAndSearch(search, raw) ==
    LET evaluated == EvaluateAll(heap, raw, search, activeFilters,
                                 hasCharacteristics, characteristics)
        IsVisible(ref) == evaluated[ref].visible = "true"
        filtered == SelectSeq(raw, IsVisible)
        reset == ResetPagination(Len(filtered), loadedPages, remainingPages)
    IN /\ heap' = evaluated
       /\ rawCards' = raw
       /\ filteredCards' = filtered
       /\ visibleCards' = Len(filtered)
       /\ rawIsFiltered' = FALSE
       /\ cards' = Materialized(filtered)
       /\ cardsIsFiltered' = ~localPagination
       /\ IF localPagination
          THEN /\ loadedPages' = reset.loadedPages
               /\ remainingPages' = reset.remainingPages
          ELSE UNCHANGED counters
       /\ calls' = <<Called("cardsChange")>>

(***************************************************************************)
(* The operations.  Callers serialize them: an operation is invoked only   *)
(* when no start() or continue() is in flight (pc = "idle").  The input    *)
(* sets (pages, patterns, descriptors, properties) are parameters.         *)
(***************************************************************************)
Idle == pc = "idle"

\* start() going on to fetchData without characteristics
StartCallUnchecked ==
    /\ Idle
    /\ loading' = TRUE
    /\ IF ~hasCharacteristics /\ hasGenerate
       THEN /\ pc' = "start_generate"
            /\ pending' = <<Called("generateCharacteristics")>>
       ELSE /\ pc' = "start_fetch"
            /\ pending' = <<Called("fetchData(true)")>>
    /\ UNCHANGED <<schema, config, counters, heap, arrays, visibleCards,
                   textFilter, checked, activeFilters, calls, ret>>
    /\ roundTrip' = NoRoundTrip
    /\ UNCHANGED fetched
    /\ UNCHANGED generatedRaw

\* lines 60-68, up to the first await or to the usage error
StartCall ==
    /\ Idle
    /\ loading' = TRUE
    /\ IF ~hasCharacteristics
       THEN IF ~hasGenerate
            THEN /\ pc' = "idle"
                 /\ pending' = <<>>
                 /\ calls' = <<>>
                 /\ ret' = Returned("start", "usage error", <<>>)
            ELSE /\ pc' = "start_generate"
                 /\ pending' = <<Called("generateCharacteristics")>>
                 /\ UNCHANGED <<calls, ret>>
       ELSE /\ pc' = "start_fetch"
            /\ pending' = <<Called("fetchData(true)")>>
            /\ UNCHANGED <<calls, ret>>
    /\ UNCHANGED <<schema, config, counters, heap, arrays, visibleCards,
                   textFilter, checked, activeFilters>>
    /\ roundTrip' = NoRoundTrip
    /\ UNCHANGED fetched
    /\ UNCHANGED generatedRaw

\* lines 65-68: generateCharacteristics resolves and the result is normalized
StartGenerated(generated) ==
    /\ pc = "start_generate"
    /\ \E raw \in generated :
          LET normalized == NormalizeCharacteristics(raw)
          IN /\ generatedRaw' = raw
             /\ characteristics' = normalized.characteristics
             /\ hasCharacteristics' = TRUE
             /\ IF normalized.ok
                THEN /\ pc' = "start_fetch"
                     /\ pending' = Append(pending, Called("fetchData(true)"))
                     /\ UNCHANGED <<calls, ret>>
                ELSE /\ pc' = "idle"
                     /\ pending' = <<>>
                     /\ calls' = pending
                     /\ ret' = Returned("start", normalized.error, <<>>)
    /\ UNCHANGED <<config, loading, counters, heap, arrays, visibleCards,
                   textFilter, checked, activeFilters>>
    /\ roundTrip' = NoRoundTrip
    /\ UNCHANGED fetched

\* lines 68-91: fetchData( true ) resolves with a page; the remote
\* collaborator has set remainingPages to the pages it has left
StartFetched(pages) ==
    /\ pc = "start_fetch"
    /\ \E page \in pages, left \in 0..MaxRemaining :
          LET ingestedCards == Ingest(page)
              refs == [i \in 1..Len(page) |-> i]
              reset == ResetPagination(Len(refs), loadedPages, remainingPages)
              added == AddNextSection(ingestedCards, refs)
          IN /\ fetched' = page
             /\ rawCards' = refs
             /\ filteredCards' = refs
             /\ rawIsFiltered' = TRUE
             /\ cardsIsFiltered' = FALSE
             /\ IF localPagination
                THEN /\ left = 0
                     /\ cards' = FirstWindow(refs)
                     /\ loadedPages' = reset.loadedPages
                     /\ remainingPages' = reset.remainingPages
                     /\ heap' = ingestedCards
                     /\ UNCHANGED visibleCards
                ELSE /\ cards' = refs
                     /\ heap' = added.heap
                     /\ visibleCards' = added.visibleCards
                     /\ remainingPages' = Whole(left)
                     /\ UNCHANGED loadedPages
    /\ loading' = FALSE
    /\ pc' = "idle"
    /\ pending' = <<>>
    /\ calls' = Append(pending, Called("cardsChange"))
    /\ ret' = Returned("start", "ok", <<>>)
    /\ UNCHANGED <<schema, config, textFilter, checked, activeFilters>>
    /\ roundTrip' = NoRoundTrip
    /\ UNCHANGED generatedRaw

\* generateCharacteristics or fetchData rejects: the call in flight ends
\* with the rejection at its await
Rejected ==
    /\ pc \in {"start_generate", "start_fetch", "continue_fetch"}
    /\ pc' = "idle"
    /\ pending' = <<>>
    /\ calls' = pending
    /\ ret' = Returned(IF pc = "continue_fetch" THEN "continue" ELSE "start",
                       "rejected", <<>>)
    /\ UNCHANGED <<schema, config, loading, counters, heap, arrays,
                   visibleCards, textFilter, checked, activeFilters>>
    /\ roundTrip' = NoRoundTrip
    /\ UNCHANGED fetched
    /\ UNCHANGED generatedRaw

\* the section of continue() taken from the start of the filtered cards
LocalSectionFromStart ==
    Slice(filteredCards, 0, itemsPerPage)

\* line 112: the section continue() takes from the filtered cards
LocalSection ==
    Slice(filteredCards, Len(cards), Len(cards) + itemsPerPage)

\* remainingPages-- (line 114), and the collaborator's count after a page
OneLess(remaining) == Rational(remaining.num - remaining.den, remaining.den)

\* continue() under local pagination fetching a page it does not use
LocalContinueFetching ==
    LET window == cards \o LocalSection
        less == OneLess(remainingPages)
        added == AddNextSection(heap, window)
    IN /\ cards' = window
       /\ loadedPages' = loadedPages + 1
       /\ remainingPages' = less
       /\ heap' = added.heap
       /\ visibleCards' = added.visibleCards
       /\ IF Greedy(less)
          THEN /\ loading' = TRUE
               /\ pc' = "continue_local"
               /\ UNCHANGED <<calls, ret>>
          ELSE /\ loading' = FALSE
               /\ pc' = "idle"
               /\ calls' = <<Called("fetchData(false)")>>
               /\ ret' = Returned("continue", "ok", <<>>)
       /\ UNCHANGED <<schema, config, rawCards, filteredCards, rawIsFiltered,
                      cardsIsFiltered, textFilter, checked, activeFilters,
                      pending>>
       /\ roundTrip' = NoRoundTrip
       /\ UNCHANGED fetched
       /\ UNCHANGED generatedRaw

\* lines 107-130 under local pagination: one call of continue(), up to the
\* call it makes of itself or to its end
LocalContinue ==
    LET window == cards \o LocalSection
        less == OneLess(remainingPages)
        added == AddNextSection(heap, window)
    IN /\ cards' = window
       /\ loadedPages' = loadedPages + 1
       /\ remainingPages' = less
       /\ heap' = added.heap
       /\ visibleCards' = added.visibleCards
       /\ IF Greedy(less)
          THEN /\ loading' = TRUE
               /\ pc' = "continue_local"
               /\ UNCHANGED <<calls, ret>>
          ELSE /\ loading' = FALSE
               /\ pc' = "idle"
               /\ calls' = <<>>
               /\ ret' = Returned("continue", "ok", <<>>)
       /\ UNCHANGED <<schema, config, rawCards, filteredCards, rawIsFiltered,
                      cardsIsFiltered, textFilter, checked, activeFilters,
                      pending>>
       /\ roundTrip' = NoRoundTrip
       /\ UNCHANGED fetched
       /\ UNCHANGED generatedRaw

\* the caller's continue() under local pagination
ContinueLocal ==
    /\ Idle
    /\ localPagination
    /\ remainingPages.num > (0 - MaxOverrun) * remainingPages.den
    /\ LocalContinue

\* line 127 under local pagination: continue() calls itself
ContinueLocalAgain ==
    /\ pc = "continue_local"
    /\ LocalContinue

\* continue() suspended at fetchData without raising loading
ContinueCallNotLoading ==
    /\ Idle
    /\ ~localPagination
    /\ UNCHANGED loading
    /\ pc' = "continue_fetch"
    /\ pending' = <<Called("fetchData(false)")>>
    /\ UNCHANGED <<schema, config, counters, heap, arrays, visibleCards,
                   textFilter, checked, activeFilters, calls, ret>>
    /\ roundTrip' = NoRoundTrip
    /\ UNCHANGED fetched
    /\ UNCHANGED generatedRaw

\* lines 107-116 under remote pagination, up to the await of fetchData
ContinueCall ==
    /\ Idle
    /\ ~localPagination
    /\ loading' = TRUE
    /\ pc' = "continue_fetch"
    /\ pending' = <<Called("fetchData(false)")>>
    /\ UNCHANGED <<schema, config, counters, heap, arrays, visibleCards,
                   textFilter, checked, activeFilters, calls, ret>>
    /\ roundTrip' = NoRoundTrip
    /\ UNCHANGED fetched
    /\ UNCHANGED generatedRaw

\* lines 116-130: fetchData( false ) resolves with a page, the collaborator
\* having lowered remainingPages by the page; once it has none left it
\* resolves with no entities
ContinueFetched(pages) ==
    /\ pc = "continue_fetch"
    /\ \E page \in (IF Positive(remainingPages) THEN pages ELSE {<<>>}) :
          LET left == IF Positive(remainingPages)
                      THEN OneLess(remainingPages)
                      ELSE remainingPages
              grown == heap \o Ingest(page)
              window == cards \o [i \in 1..Len(page) |-> Len(heap) + i]
              added == AddNextSection(grown, window)
          IN /\ fetched' = page
             /\ heap' = added.heap
             /\ cards' = window
             /\ filteredCards' = IF cardsIsFiltered THEN window ELSE filteredCards
             /\ cardsIsFiltered' = FALSE
             /\ visibleCards' = added.visibleCards
             /\ remainingPages' = left
             /\ IF Greedy(left)
                THEN /\ loading' = TRUE
                     /\ pc' = "continue_fetch"
                     /\ pending' = Append(pending,
                            [call |-> "fetchData(false)", remaining |-> left])
                     /\ UNCHANGED <<calls, ret>>
                ELSE /\ loading' = FALSE
                     /\ pc' = "idle"
                     /\ pending' = <<>>
                     /\ calls' = pending
                     /\ ret' = Returned("continue", "ok", <<>>)
    /\ UNCHANGED <<schema, config, loadedPages, rawCards, rawIsFiltered,
                   textFilter, checked, activeFilters>>
    /\ roundTrip' = NoRoundTrip
    /\ UNCHANGED generatedRaw

\* lines 168-183
ApplyFiltersAndSearch ==
    /\ Idle
    /\ FiltersAndSearch(textFilter, rawCards)
    /\ ret' = Returned("applyFiltersAndSearch", "void", <<>>)
    /\ UNCHANGED <<schema, config, loading, textFilter, checked,
                   activeFilters, pc, pending>>
    /\ roundTrip' = NoRoundTrip
    /\ UNCHANGED fetched
    /\ UNCHANGED generatedRaw

\* lines 188-192
ApplyTextFilter(patterns) ==
    /\ Idle
    /\ \E filterPattern \in patterns :
          /\ textFilter' = filterPattern
          /\ FiltersAndSearch(filterPattern, rawCards)
          /\ ret' = Returned("applyTextFilter", "true", <<filterPattern>>)
    /\ UNCHANGED <<schema, config, loading, checked, activeFilters, pc,
                   pending>>
    /\ roundTrip' = NoRoundTrip
    /\ UNCHANGED fetched
    /\ UNCHANGED generatedRaw

\* lines 209-227.  When the comparator throws, sort() leaves the array in an
\* order the engine chooses and nothing else of the method runs.
ApplySortBy(properties) ==
    /\ Idle
    /\ \E property \in properties, order \in SortOrders :
          IF SortThrows(heap, rawCards, property)
          THEN /\ rawCards' \in Reorderings(rawCards)
               /\ filteredCards' = IF rawIsFiltered THEN rawCards'
                                   ELSE filteredCards
               /\ calls' = <<>>
               /\ ret' = Returned("applySortBy", "consistency error",
                                  <<property, order>>)
               /\ UNCHANGED <<heap, cards, rawIsFiltered, cardsIsFiltered,
                              visibleCards, counters>>
          ELSE /\ FiltersAndSearch(textFilter,
                                   SortCards(heap, rawCards, property, order))
               /\ ret' = Returned("applySortBy", "false", <<property, order>>)
    /\ UNCHANGED <<schema, config, loading, textFilter, checked,
                   activeFilters, pc, pending>>
    /\ roundTrip' = NoRoundTrip
    /\ UNCHANGED fetched
    /\ UNCHANGED generatedRaw

\* lines 234-238: activeFilters after applyFilterBy( descriptor )
WithFilter(filters, descriptor) ==
    LET entered == IF descriptor.property \in DOMAIN filters
                   THEN filters
                   ELSE (descriptor.property :> [valueKey \in {} |-> descriptor])
                            @@ filters
    IN [entered EXCEPT ![descriptor.property] =
            (descriptor.valueKey :> descriptor) @@ @]

\* removeFilterBy keeping the entry of a property left without values
WithoutFilterKeepingEntry(filters, descriptor) ==
    IF descriptor.property \notin DOMAIN filters
    THEN filters
    ELSE [filters EXCEPT ![descriptor.property] =
             [valueKey \in DOMAIN @ \ {descriptor.valueKey} |-> @[valueKey]]]

\* lines 247-254: activeFilters after removeFilterBy( descriptor )
WithoutFilter(filters, descriptor) ==
    IF descriptor.property \notin DOMAIN filters
    THEN filters
    ELSE LET values == filters[descriptor.property]
             rest == [valueKey \in DOMAIN values \ {descriptor.valueKey} |->
                         values[valueKey]]
         IN IF DOMAIN rest = {}
            THEN [property \in DOMAIN filters \ {descriptor.property} |->
                     filters[property]]
            ELSE [filters EXCEPT ![descriptor.property] = rest]

\* applyFilterBy re-evaluating the cards under the new filters
ApplyFilterByRefreshing(descriptors) ==
    /\ Idle
    /\ \E descriptor \in descriptors :
          /\ activeFilters' = WithFilter(activeFilters, descriptor)
          /\ ret' = Returned("applyFilterBy", "false", <<descriptor>>)
          /\ roundTrip' = [stage |-> "applied", from |-> activeFilters,
                           descriptor |-> descriptor]
          /\ LET evaluated == EvaluateAll(heap, rawCards, textFilter,
                                          activeFilters', hasCharacteristics,
                                          characteristics)
                 IsVisible(ref) == evaluated[ref].visible = "true"
             IN /\ heap' = evaluated
                /\ filteredCards' = SelectSeq(rawCards, IsVisible)
                /\ visibleCards' = Len(filteredCards')
                /\ cards' = Materialized(filteredCards')
    /\ calls' = <<Called("cardsChange")>>
    /\ UNCHANGED <<schema, config, loading, counters, rawCards,
                   rawIsFiltered, cardsIsFiltered, textFilter, checked, pc,
                   pending>>
    /\ UNCHANGED fetched
    /\ UNCHANGED generatedRaw

\* lines 233-240
ApplyFilterBy(descriptors) ==
    /\ Idle
    /\ \E descriptor \in descriptors :
          /\ activeFilters' = WithFilter(activeFilters, descriptor)
          /\ ret' = Returned("applyFilterBy", "false", <<descriptor>>)
          /\ roundTrip' = [stage |-> "applied", from |-> activeFilters,
                           descriptor |-> descriptor]
    /\ calls' = <<>>
    /\ UNCHANGED <<schema, config, loading, counters, heap, arrays,
                   visibleCards, textFilter, checked, pc, pending>>
    /\ UNCHANGED fetched
    /\ UNCHANGED generatedRaw

\* lines 246-257
RemoveFilterBy(descriptors) ==
    /\ Idle
    /\ \E descriptor \in descriptors :
          /\ activeFilters' = WithoutFilter(activeFilters, descriptor)
          /\ ret' = Returned("removeFilterBy", "false", <<descriptor>>)
          /\ roundTrip' = IF /\ roundTrip.stage = "applied"
                              /\ roundTrip.descriptor = descriptor
                           THEN [roundTrip EXCEPT !.stage = "removed"]
                           ELSE NoRoundTrip
    /\ calls' = <<>>
    /\ UNCHANGED <<schema, config, loading, counters, heap, arrays,
                   visibleCards, textFilter, checked, pc, pending>>
    /\ UNCHANGED fetched
    /\ UNCHANGED generatedRaw

\* lines 270-273
ApplySelect ==
    /\ Idle
    /\ \E value \in BOOLEAN :
          /\ checked' = value
          /\ heap' = MarkCardsAsCheck(heap, cards, value)
          /\ ret' = Returned("applySelect", "void", <<value>>)
    /\ calls' = <<>>
    /\ UNCHANGED <<schema, config, loading, counters, arrays, visibleCards,
                   textFilter, activeFilters, pc, pending>>
    /\ roundTrip' = NoRoundTrip
    /\ UNCHANGED fetched
    /\ UNCHANGED generatedRaw

(***************************************************************************)
(* Specifications.                                                         *)
(***************************************************************************)
PlainView == BaseCharacteristics(SearchTagsStatus, FALSE)
GreedyView == BaseCharacteristics(SearchTagsStatus, TRUE)

AllPages == PagesUpTo(Entities, MaxPageLen)

\* the pages a collaborator with the two entities e1 and e2 answers
\* fetchData( true ) and fetchData( false ) with
StartPages == PagesUpTo({"e1", "e2"}, MaxPageLen)
ContinuePages == PagesUpTo({"e1", "e2"}, MaxContinueLen)

\* the inputs of the specifications that vary one pattern and one descriptor
OnePattern == {NullPattern, Pattern(<<"b">>)}
OneDescriptor == {TagsA}

\* the characteristics the views are constructed with, or generate
PlainOrGreedy == {PlainView, GreedyView}
OnlyPlain == {PlainView}
AnyCharacteristics == GoodCharacteristics \cup BadCharacteristics

\* the itemsPerPage the views are configured with under local pagination
AnyItemsPerPage == 0..MaxItemsPerPage
SomeItemsPerPage == 1..MaxItemsPerPage

\* views under local pagination: start, continue and the filter and search
\* operations over one descriptor and one pattern
InitLocal ==
    InitView(PlainOrGreedy, {}, {TRUE}, AnyItemsPerPage)

NextLocal ==
    \/ StartCall
    \/ StartFetched(AllPages)
    \/ ContinueLocal
    \/ ContinueLocalAgain
    \/ ApplyFiltersAndSearch
    \/ ApplyTextFilter(OnePattern)
    \/ ApplyFilterBy(OneDescriptor)
    \/ RemoveFilterBy(OneDescriptor)

SpecLocal == InitLocal /\ [][NextLocal]_vars

\* views under remote pagination, fed pages of two of the entities: start,
\* continue and the filter and search operations over one descriptor and one
\* pattern
InitRemote ==
    InitView(PlainOrGreedy, {}, {FALSE}, {})

NextRemote ==
    \/ StartCall
    \/ StartFetched(StartPages)
    \/ ContinueCall
    \/ ContinueFetched(ContinuePages)
    \/ ApplyFiltersAndSearch
    \/ ApplyTextFilter(OnePattern)
    \/ ApplyFilterBy(OneDescriptor)
    \/ RemoveFilterBy(OneDescriptor)

SpecRemote == InitRemote /\ [][NextRemote]_vars

\* start() and continue() under remote pagination, with a collaborator that
\* settles every fetch it is asked
InitFetch ==
    InitView(PlainOrGreedy, {}, {FALSE}, {})

NextFetch ==
    \/ StartCall
    \/ StartFetched(ContinuePages)
    \/ ContinueCall
    \/ ContinueFetched(ContinuePages)

SpecFetch ==
    /\ InitFetch
    /\ [][NextFetch]_vars
    /\ WF_vars(StartFetched(ContinuePages))
    /\ WF_vars(ContinueFetched(ContinuePages))

\* the filters in full, in both modes, on the cards of a start()
InitFilter ==
    InitView(OnlyPlain, {}, BOOLEAN, SomeItemsPerPage)

NextFilter ==
    \/ StartCall
    \/ StartFetched(AllPages)
    \/ ApplyFiltersAndSearch
    \/ ApplyFilterBy(FilterDescriptors)
    \/ RemoveFilterBy(FilterDescriptors)

SpecFilter == InitFilter /\ [][NextFilter]_vars

\* the text search in full, in both modes, on the cards of a start()
InitSearch ==
    InitView(GoodCharacteristics, {}, BOOLEAN, SomeItemsPerPage)

NextSearch ==
    \/ StartCall
    \/ StartFetched(AllPages)
    \/ ApplyTextFilter(SearchPatterns)

SpecSearch == InitSearch /\ [][NextSearch]_vars

\* sorting, with the search over one pattern, in both modes, on the cards of
\* a start()
InitSort ==
    InitView(OnlyPlain, {}, BOOLEAN, AnyItemsPerPage)

NextSort ==
    \/ StartCall
    \/ StartFetched(AllPages)
    \/ ApplyFiltersAndSearch
    \/ ApplyTextFilter(OnePattern)
    \/ ApplySortBy(SortProperties)

SpecSort == InitSort /\ [][NextSort]_vars

\* the lifecycle of start() and continue() under remote pagination, with
\* generated characteristics and rejections
InitLifecycle ==
    InitView(OnlyPlain, BOOLEAN, {FALSE}, {})

NextLifecycle ==
    \/ StartCall
    \/ StartGenerated(AnyCharacteristics)
    \/ StartFetched(ContinuePages)
    \/ Rejected
    \/ ContinueCall
    \/ ContinueFetched(ContinuePages)

SpecLifecycle == InitLifecycle /\ [][NextLifecycle]_vars

\* selection under local pagination: start, continue, re-evaluation and
\* applySelect
InitSelect ==
    InitView(PlainOrGreedy, {}, {TRUE}, SomeItemsPerPage)

NextSelect ==
    \/ StartCall
    \/ StartFetched(StartPages)
    \/ ContinueLocal
    \/ ContinueLocalAgain
    \/ ApplyFiltersAndSearch
    \/ ApplySelect

SpecSelect == InitSelect /\ [][NextSelect]_vars

\* the characteristics a view of the loading cycle is given or generates
GeneratedOrGreedy == AnyCharacteristics \cup PlainOrGreedy

\* the loading cycle of start() and continue(), serialized by the caller, in
\* both modes, with given or generated characteristics, greedy or not, and
\* rejections
InitLoading ==
    InitView(PlainOrGreedy, BOOLEAN, BOOLEAN, SomeItemsPerPage)

NextLoading ==
    \/ StartCall
    \/ StartGenerated(GeneratedOrGreedy)
    \/ StartFetched(StartPages)
    \/ Rejected
    \/ ContinueLocal
    \/ ContinueLocalAgain
    \/ ContinueCall
    \/ ContinueFetched(ContinuePages)

SpecLoading == InitLoading /\ [][NextLoading]_vars

\* the pages a collaborator that keeps its entities in one order answers
\* fetchData( true ) with
OrderedPages == {<<"e1", "e2">>, <<"e1", "e2", "e3">>}

\* the properties whose values the sort compares without failing
CaptionOrNumber == {"caption", "n"}

\* the window under local pagination with itemsPerPage > 0: every call that
\* moves it or the lists it is cut from
InitWindow ==
    InitView(PlainOrGreedy, {}, {TRUE}, SomeItemsPerPage)

NextWindow ==
    \/ StartCall
    \/ StartFetched(OrderedPages)
    \/ ContinueLocal
    \/ ContinueLocalAgain
    \/ ApplyFiltersAndSearch
    \/ ApplyTextFilter(OnePattern)
    \/ ApplySortBy(CaptionOrNumber)
    \/ ApplyFilterBy(OneDescriptor)
    \/ RemoveFilterBy(OneDescriptor)

SpecWindow == InitWindow /\ [][NextWindow]_vars

(***************************************************************************)
(* The claims.                                                             *)
(***************************************************************************)
\* the last call to end is a start() (a continue()) that completed, and no
\* call is in flight
StartCompleted == pc = "idle" /\ ret.op = "start" /\ ret.outcome = "ok"
ContinueCompleted == pc = "idle" /\ ret.op = "continue" /\ ret.outcome = "ok"

\* does the card pass the filter and the search predicate of the view now
PassesNow(ref) ==
    Passes(heap, ref, textFilter, activeFilters, hasCharacteristics,
           characteristics)

\* the cards of the window for which both predicates hold
PassingInWindow == {i \in 1..Len(cards) : PassesNow(cards[i])}

\* C1: after start() completes, in remote and in local-pagination mode alike,
\* visibleCards is the number of cards of the window `cards` for which the
\* filter predicate and the search predicate both hold.
C1_VisibleCountAfterStart ==
    StartCompleted => visibleCards = Cardinality(PassingInWindow)

\* C2: in remote mode rawCards holds every card ingested since the last
\* start(), those of each continue() included, and after applyTextFilter or
\* applyFiltersAndSearch every ingested card that passes the filter and
\* search predicates is in `cards`.  (heap holds the cards ingested since the
\* last start; rawCards is not empty only once a start() has completed.)
C2_RawCardsHoldEveryIngestedCard ==
    (~localPagination /\ rawCards # <<>>) =>
        /\ \A ref \in DOMAIN heap : ref \in Range(rawCards)
        /\ ret.op \in {"applyTextFilter", "applyFiltersAndSearch"} =>
              \A ref \in DOMAIN heap : PassesNow(ref) => ref \in Range(cards)

\* the match of C3: some element of a sequence equals the descriptor's value,
\* a string or a number is equal to it
ClaimedDescriptorMatch(valDescriptor, cardPropValue) ==
    IF cardPropValue.kind = "array"
    THEN \E i \in 1..Len(cardPropValue.elems) :
            StrictEquals(cardPropValue.elems[i], valDescriptor.value)
    ELSE StrictEquals(cardPropValue, valDescriptor.value)

ClaimedFilterPredicate(properties, filters) ==
    \A property \in DOMAIN filters :
        /\ HasDefined(properties, property)
        /\ \E valueKey \in DOMAIN filters[property] :
              ClaimedDescriptorMatch(filters[property][valueKey],
                                     properties[property])

\* the card's values for the filtered properties are sequences, strings or
\* numbers (or missing), the values C3 speaks of
FilterableValues(properties, filters) ==
    \A property \in DOMAIN filters :
        GetProperty(properties, property).kind
            \in {"undefined", "array", "string", "number"}

\* C3: the filter predicate holds for a card iff for every property key of
\* activeFilters the card's value is defined and matches at least one active
\* value descriptor of the property: a sequence when some element equals the
\* descriptor's value, a string or a number when it is equal to it; with no
\* active filters it holds.
C3_FilterPredicate ==
    \A ref \in DOMAIN heap :
        FilterableValues(PropertiesOf(heap, ref), activeFilters) =>
            (EvaluateCardVisibilityByFilter(PropertiesOf(heap, ref), activeFilters)
                <=> ClaimedFilterPredicate(PropertiesOf(heap, ref), activeFilters))

ClaimedSearchPredicate(properties, search, searchableBy) ==
    \E i \in 1..Len(searchableBy) :
        /\ HasDefined(properties, searchableBy[i])
        /\ IF properties[searchableBy[i]].kind = "array"
           THEN \E j \in 1..Len(properties[searchableBy[i]].elems) :
                   RegExpTest(search, properties[searchableBy[i]].elems[j])
           ELSE RegExpTest(search, properties[searchableBy[i]])

\* C4: with a pattern and a searchableBy list that is not empty, a card
\* passes the search predicate iff some searchable property defined on the
\* card has a value that matches the pattern or, when the value is a
\* sequence, an element that matches it, whatever the element (an empty
\* string or 0 included).
C4_SearchPredicate ==
    (/\ ~textFilter.isNull
     /\ hasCharacteristics
     /\ characteristics.searchableBy.defined
     /\ characteristics.searchableBy.list # <<>>) =>
        \A ref \in DOMAIN heap :
            EvaluateCardVisibilityBySearch(PropertiesOf(heap, ref), textFilter,
                                           hasCharacteristics, characteristics)
                <=> ClaimedSearchPredicate(PropertiesOf(heap, ref), textFilter,
                                           characteristics.searchableBy.list)

\* the keys sortableBy, filterableBy and groupableBy refer to
ReferencedProperties ==
    LET listed == characteristics.sortableBy.list
                     \o characteristics.filterableBy.list
                     \o characteristics.groupableBy.list
    IN {listed[i].key : i \in 1..Len(listed)} \cap DOMAIN characteristics.definitions

\* C10: once the characteristics are normalized (by the constructor or by
\* start()), every value descriptor flagged default of a property that
\* sortableBy, filterableBy or groupableBy refers to is in activeFilters
\* under its property key and its valueKey.
C10_DefaultsAreActive ==
    (/\ hasCharacteristics
     /\ ret.op \in {"constructor", "start"}
     /\ ret.outcome = "ok") =>
        \A property \in ReferencedProperties :
            LET values == characteristics.definitions[property].values
            IN \A i \in 1..Len(values) :
                  values[i].default =>
                      /\ property \in DOMAIN activeFilters
                      /\ values[i].valueKey \in DOMAIN activeFilters[property]

\* the first k of the ingested cards, in the order of ingestion
FirstIngested(k) == [i \in 1..k |-> i]

\* what a continue() under local pagination is to do to the window and to the
\* page counters
NextPageAppended ==
    LET rest == Len(filteredCards) - Len(cards)
        more == IF rest < 0 THEN 0 ELSE Min(itemsPerPage, rest)
    IN /\ cards' = cards \o [i \in 1..more |-> filteredCards[Len(cards) + i]]
       /\ loadedPages' = loadedPages + 1
       /\ remainingPages'.num * remainingPages.den
             = (remainingPages.num - remainingPages.den) * remainingPages'.den

\* C5: under local pagination with itemsPerPage = p > 0 and n ingested cards,
\* start() leaves in `cards` the first min(p, n) cards in order, with
\* loadedPages = 0 and remainingPages = n / p, not rounded; each continue()
\* after it appends the next min(p, cards not yet materialized) filtered
\* cards in order, adds 1 to loadedPages and takes 1 from remainingPages.
C5_LocalPaginationWindow ==
    /\ [](StartCompleted /\ localPagination /\ itemsPerPage > 0 =>
            /\ cards = FirstIngested(Min(itemsPerPage, Len(heap)))
            /\ loadedPages = 0
            /\ remainingPages.num * itemsPerPage = Len(heap) * remainingPages.den)
    /\ [][(ContinueLocal \/ ContinueLocalAgain) /\ itemsPerPage > 0 =>
             NextPageAppended]_vars

\* three cards by pages of two: the second page holds the one card left, and
\* half a page remains
C5_SecondPageOfThree ==
    /\ localPagination
    /\ itemsPerPage = 2
    /\ ContinueCompleted
    /\ Len(heap) = 3
    /\ cards = <<1, 2, 3>>
    /\ loadedPages = 1
    /\ remainingPages = [num |-> 1, den |-> 2]

\* the view consumes greedily
GreedyConsumer == hasCharacteristics /\ characteristics.greedyConsumer

\* the pages the collaborator had left when the call that ended last began
PagesLeftAtCall == calls[1].remaining.num

\* a fetch of continue() resolves: the cards of its page go to the end of the
\* window, in the order of the page, and the cards ingested before stay
PageAppended ==
    /\ Len(heap') >= Len(heap)
    /\ \A ref \in DOMAIN heap : heap'[ref].entity = heap[ref].entity
    /\ cards' = cards \o [i \in 1..(Len(heap') - Len(heap)) |-> Len(heap) + i]

\* C6: in remote mode with greedyConsumer set and a collaborator that has
\* k >= 1 pages left and lowers remainingPages on each fetchData(false), down
\* to 0 after the last page, one call of continue() terminates after exactly
\* k fetches, the cards of the k pages appended to `cards` in the order of
\* the fetches, with remainingPages = 0 and loading = false.
C6_GreedyContinueExhausts ==
    /\ [](ContinueCompleted /\ ~localPagination /\ GreedyConsumer
             /\ PagesLeftAtCall >= 1 =>
            /\ Len(calls) = PagesLeftAtCall
            /\ \A i \in 1..Len(calls) : calls[i].call = "fetchData(false)"
            /\ remainingPages = Whole(0)
            /\ ~loading)
    /\ [][pc = "continue_fetch" /\ pc' \in {"continue_fetch", "idle"} =>
             PageAppended]_vars
    /\ (pc = "continue_fetch" /\ GreedyConsumer) ~> ContinueCompleted

\* a greedy continue() that began with two pages left has ended, its two
\* pages of one card each in the window after the card of start()
C6_TwoPagesConsumed ==
    /\ ContinueCompleted
    /\ ~localPagination
    /\ GreedyConsumer
    /\ PagesLeftAtCall = 2
    /\ Len(calls) = 2
    /\ Len(heap) = 3
    /\ cards = <<1, 2, 3>>
    /\ remainingPages = Whole(0)
    /\ ~loading

\* the descriptor is active: filters has an entry under its property and its
\* valueKey
Active(filters, descriptor) ==
    /\ descriptor.property \in DOMAIN filters
    /\ descriptor.valueKey \in DOMAIN filters[descriptor.property]

\* the last two calls are applyFilterBy(v) and then removeFilterBy(v)
RoundTripDone == roundTrip.stage = "removed"

\* C7 as stated: for every state of activeFilters and every value descriptor
\* v, active already or not, applyFilterBy(v) followed by removeFilterBy(v)
\* leaves activeFilters equal to what it was before the two calls.
C7_RoundTripOfAnyDescriptor ==
    RoundTripDone => activeFilters = roundTrip.from

\* C7, amended: for every state of activeFilters and every value descriptor v
\* that is not active in it, applyFilterBy(v) followed by removeFilterBy(v)
\* leaves activeFilters equal to what it was before the two calls, with no
\* entry for v's property when v was its only value.
C7_RoundTripOfInactiveDescriptor ==
    (RoundTripDone /\ ~Active(roundTrip.from, roundTrip.descriptor)) =>
        /\ activeFilters = roundTrip.from
        /\ roundTrip.descriptor.property \notin DOMAIN roundTrip.from =>
              roundTrip.descriptor.property \notin DOMAIN activeFilters

\* StatusUp was applied and removed while StatusDn and TagsA were active
C7_RoundTripBesideOtherValues ==
    /\ RoundTripDone
    /\ roundTrip.descriptor = StatusUp
    /\ ~Active(roundTrip.from, StatusUp)
    /\ Active(roundTrip.from, StatusDn)
    /\ Active(activeFilters, StatusDn)
    /\ Active(activeFilters, TagsA)
    /\ ret.op = "removeFilterBy"

SortCompleted ==
    Idle /\ ret.op = "applySortBy" /\ ret.outcome # "consistency error"

\* the value of the sorted property on the i-th of rawCards
SortedValue(i) == SortValue(heap, rawCards[i], ret.args[1])

\* the visible cards, in the order of rawCards
VisibleInRawOrder ==
    LET IsVisible(ref) == heap[ref].visible = "true"
    IN SelectSeq(rawCards, IsVisible)

\* C9: applySortBy(descriptor, order) reorders rawCards by the descriptor's
\* property: values that are all numbers end ascending for order = "ASC" and
\* descending for any other order, values that are all strings end ascending
\* whatever the order; the window `cards` it produces lists the visible cards
\* in the same order, and the call returns false.
C9_SortByProperty ==
    /\ [](SortCompleted =>
            /\ (\A i \in 1..Len(rawCards) : SortedValue(i).kind = "number") =>
                  \A i, j \in 1..Len(rawCards) : i < j =>
                     IF ret.args[2] = "ASC"
                     THEN SortedValue(i).num <= SortedValue(j).num
                     ELSE SortedValue(i).num >= SortedValue(j).num
            /\ (\A i \in 1..Len(rawCards) : SortedValue(i).kind = "string") =>
                  \A i, j \in 1..Len(rawCards) : i < j =>
                     LocaleCompare(SortedValue(i).chars, SortedValue(j).chars) <= 0
            /\ cards = IF localPagination
                       THEN SubSeq(VisibleInRawOrder, 1,
                                   Min(itemsPerPage, Len(VisibleInRawOrder)))
                       ELSE VisibleInRawOrder
            /\ ret.outcome = "false")
    /\ [][(Idle /\ ret'.op = "applySortBy") =>
             /\ Len(rawCards') = Len(rawCards)
             /\ Range(rawCards') = Range(rawCards)]_vars

\* the cards of e1, e2 and e3 (n = 3, 1, 2) sorted by n in ascending order,
\* and in descending order under a search that hides two of them
C9_SortedByNumber ==
    /\ SortCompleted
    /\ ret.args[1] = "n"
    /\ Len(heap) = 3
    /\ heap[1].entity = "e1" /\ heap[2].entity = "e2" /\ heap[3].entity = "e3"
    /\ \/ ret.args[2] = "ASC" /\ rawCards = <<2, 3, 1>> /\ cards = <<2, 3, 1>>
       \/ ret.args[2] = "DESC" /\ rawCards = <<1, 3, 2>> /\ cards = <<1>>

\* the call that ended last made collaborator calls, cardsChange the last
NotifiedLast ==
    /\ calls # <<>>
    /\ calls[Len(calls)].call = "cardsChange"

\* C11: every operation that changes the window `cards` (start(), continue()
\* in either mode, applyFiltersAndSearch(), applyTextFilter(), applySortBy())
\* calls cardsChange() after the change and before it completes.
C11_WindowChangeNotifies ==
    [][(cards' # cards /\ pc' = "idle") => NotifiedLast']_vars

\* the cards of the window whose visible flag is true
VisibleInWindow == {i \in 1..Len(cards) : heap[cards[i]].visible = "true"}

\* C12: after every operation that changes the window (start, continue,
\* applyFiltersAndSearch, applyTextFilter, applySortBy, in remote and in
\* local-pagination mode, here with itemsPerPage > 0), visibleCards is the
\* number of cards of `cards` whose visible flag is true.
C12_VisibleCountOfWindow ==
    (/\ Idle
     /\ ret.op \in {"start", "continue", "applyFiltersAndSearch",
                    "applyTextFilter", "applySortBy"}
     /\ ret.outcome \in {"ok", "void", "true", "false"}
     /\ localPagination => itemsPerPage > 0) =>
        visibleCards = Cardinality(VisibleInWindow)

\* C13: under local pagination, once start(), continue(), applyTextFilter(),
\* applySortBy() or applyFiltersAndSearch() has completed, every card of
\* `cards`, those that entered the window in the operation included, has its
\* checked flag equal to the value of the most recent applySelect (false
\* without one; a card never marked counts as not checked).
C13_WindowCarriesSelection ==
    (/\ localPagination
     /\ Idle
     /\ ret.op \in {"start", "continue", "applyFiltersAndSearch",
                    "applyTextFilter", "applySortBy"}
     /\ ret.outcome \in {"ok", "void", "true", "false"}) =>
        \A i \in 1..Len(cards) : (heap[cards[i]].checked = "true") <=> checked

\* the card is the one ingested from the entity: its id and caption are those
\* of the entity's derived properties
CardOf(ref, entity) ==
    /\ heap[ref].entity = entity
    /\ heap[ref].id = DeriveEntityProperties(entity).id
    /\ heap[ref].caption = DeriveEntityProperties(entity).caption

\* C14: after any start() completes in remote mode, one issued after earlier
\* start() and continue() calls included, rawCards and `cards` each hold
\* exactly one card per entity that this start's fetchData(true) returned, in
\* the order returned, each with the id and caption of the derived
\* properties, and no card from before the call remains.
C14_StartReplacesCards ==
    (StartCompleted /\ ~localPagination) =>
        /\ Len(rawCards) = Len(fetched)
        /\ Len(cards) = Len(fetched)
        /\ \A i \in 1..Len(fetched) :
              /\ CardOf(rawCards[i], fetched[i])
              /\ CardOf(cards[i], fetched[i])
        /\ \A i, j \in 1..Len(fetched) : rawCards[i] = rawCards[j] => i = j
        /\ \A i, j \in 1..Len(fetched) : cards[i] = cards[j] => i = j
        /\ DOMAIN heap = Range(rawCards)

\* a start() whose fetch returned e2 and then e1 has completed, under a search
\* that an earlier call set
C14_StartedWithTwo ==
    /\ StartCompleted
    /\ ~localPagination
    /\ fetched = <<"e2", "e1">>
    /\ rawCards = <<1, 2>>
    /\ cards = <<1, 2>>
    /\ Len(heap) = 2
    /\ heap[1].caption = Str(<<"a">>)
    /\ heap[2].caption = Str(<<"b">>)
    /\ ~textFilter.isNull

\* the entries of sortableBy, filterableBy and groupableBy of the generated
\* characteristics, in the order the normalization takes them
GeneratedEntries ==
    OrEmpty(generatedRaw.sortableBy).list
        \o OrEmpty(generatedRaw.filterableBy).list
        \o OrEmpty(generatedRaw.groupableBy).list

\* the keys registered when entry i is taken: those supplied in definitions
\* and those of the raw descriptors listed before it
RegisteredBefore(i) ==
    DOMAIN generatedRaw.definitions
        \cup {GeneratedEntries[j].key : j \in {l \in 1..(i - 1) :
                                                ~GeneratedEntries[l].isString}}

\* entry i is a raw descriptor of a registered key, or a key not registered
Offends(i) ==
    GeneratedEntries[i].isString <=>
        GeneratedEntries[i].key \notin RegisteredBefore(i)

\* the last call is a start() that normalized generated characteristics
NormalizedAtStart ==
    /\ Idle
    /\ ret.op = "start"
    /\ calls # <<>>
    /\ calls[1].call = "generateCharacteristics"

\* C15: normalizing characteristics in which a raw property descriptor of
\* sortableBy, filterableBy or groupableBy has a key already registered in
\* definitions (supplied there, or registered by an earlier entry) fails with
\* a configuration error wrapped as a normalization failure; a string key
\* that is not in definitions fails likewise with a not-found error.
C15_NormalizationFails ==
    NormalizedAtStart =>
        \A i \in 1..Len(GeneratedEntries) :
            (Offends(i) /\ \A j \in 1..(i - 1) : ~Offends(j)) =>
                ret.outcome =
                    IF GeneratedEntries[i].isString
                    THEN "Failed to normalize characteristics object: "
                            \o "not found in definitions dictionary"
                    ELSE "Failed to normalize characteristics object: "
                            \o "multiple descriptors for the property"

\* a start() has failed on the descriptor of n listed in sortableBy and again
\* in groupableBy
C15_SecondDescriptorOfN ==
    /\ NormalizedAtStart
    /\ generatedRaw = DuplicateInLists
    /\ ret.outcome = "Failed to normalize characteristics object: "
                        \o "multiple descriptors for the property"
    /\ Len(calls) = 1

\* C16: start() on a view with no characteristics and no
\* generateCharacteristics method fails with a usage error, never calls
\* fetchData or cardsChange, and leaves rawCards, filteredCards, cards,
\* visibleCards, loadedPages and remainingPages unchanged.
C16_StartWithoutCharacteristics ==
    [][(~hasCharacteristics /\ ~hasGenerate /\ StartCall) =>
          /\ pc' = "idle"
          /\ ret'.op = "start"
          /\ ret'.outcome = "usage error"
          /\ calls' = <<>>
          /\ pending' = <<>>
          /\ UNCHANGED <<rawCards, filteredCards, cards, visibleCards,
                         loadedPages, remainingPages>>]_vars

\* start() has failed with the usage error
C16_UsageError ==
    /\ Idle
    /\ ~hasCharacteristics
    /\ ~hasGenerate
    /\ ret.op = "start"
    /\ ret.outcome = "usage error"
    /\ calls = <<>>

\* C17: applyFilterBy and removeFilterBy change only activeFilters: rawCards,
\* filteredCards, cards, the visible and checked flag of every card,
\* visibleCards, loadedPages and remainingPages are unchanged, cardsChange()
\* is not called, and both return false.
C17_FilterCallsOnlySetFilters ==
    [][(Idle /\ pc' = "idle"
            /\ ret'.op \in {"applyFilterBy", "removeFilterBy"}) =>
          /\ UNCHANGED <<rawCards, filteredCards, cards, heap, visibleCards,
                         loadedPages, remainingPages>>
          /\ calls' = <<>>
          /\ ret'.outcome = "false"]_vars

\* the filter that hid a card has been removed, and the card is hidden still
C17_StaleAfterRemove ==
    /\ Idle
    /\ ret.op = "removeFilterBy"
    /\ DOMAIN activeFilters = {}
    /\ cards # <<>>
    /\ \E ref \in DOMAIN heap : heap[ref].visible = "false"

\* the calls of fetchData in a log of collaborator calls
Fetches(log) ==
    {i \in 1..Len(log) : log[i].call \in {"fetchData(true)", "fetchData(false)"}}

C19_VacuousSearch ==
    (/\ ~textFilter.isNull
     /\ hasCharacteristics
     /\ \/ ~characteristics.searchableBy.defined
        \/ characteristics.searchableBy.list = <<>>) =>
        \A ref \in DOMAIN heap :
            EvaluateCardVisibilityBySearch(PropertiesOf(heap, ref), textFilter,
                                           hasCharacteristics, characteristics)

\* C20: with calls of start() and continue() serialized by the caller,
\* loading is true in every state where a call is suspended at
\* generateCharacteristics or at fetchData, every fetch of a greedy chain
\* included, and false once the call has completed successfully.
C20_LoadingWhileSuspended ==
    /\ pc \in {"start_generate", "start_fetch", "continue_fetch"} => loading
    /\ (StartCompleted \/ ContinueCompleted) => ~loading

\* a greedy continue() is suspended at its second fetch
C20_SecondFetchOfChain ==
    /\ GreedyConsumer
    /\ ~localPagination
    /\ pc = "continue_fetch"
    /\ Len(pending) = 2
    /\ pending[2].call = "fetchData(false)"
    /\ ret.op = "start"
    /\ loading

\* C21: once start(), continue() or applyFiltersAndSearch() has completed,
\* every card of filteredCards passes the filter and the search predicates
\* under the activeFilters and the textFilter in force, a start() made with
\* filters active and a remote continue() made after applyFiltersAndSearch()
\* included.
C21_FilteredCardsPass ==
    (/\ Idle
     /\ ret.op \in {"start", "continue", "applyFiltersAndSearch"}
     /\ ret.outcome \in {"ok", "void"}) =>
        \A i \in 1..Len(filteredCards) : PassesNow(filteredCards[i])

\* `cards` is the prefix of filteredCards, same cards in the same order, of
\* length min(|filteredCards|, (loadedPages + 1) * itemsPerPage)
WindowIsPrefix ==
    /\ Len(cards) = Min(Len(filteredCards), (loadedPages + 1) * itemsPerPage)
    /\ \A i \in 1..Len(cards) : cards[i] = filteredCards[i]

\* the outcomes of the calls that complete successfully
Succeeded == ret.outcome \in {"ok", "void", "true", "false"}

\* C22: under local pagination with itemsPerPage > 0, after any sequence of
\* successfully completed start(), continue(), applyTextFilter(),
\* applySortBy(), applyFiltersAndSearch(), applyFilterBy() and
\* removeFilterBy() calls that begins with start(), `cards` is the prefix of
\* filteredCards of length min(|filteredCards|, (loadedPages + 1) *
\* itemsPerPage): it is so after start(), and every step of a call that
\* succeeds keeps it so.
C22_WindowIsPrefix ==
    /\ []((localPagination /\ itemsPerPage > 0 /\ StartCompleted) =>
             WindowIsPrefix)
    /\ [][(localPagination /\ itemsPerPage > 0 /\ WindowIsPrefix
             /\ Succeeded') => WindowIsPrefix']_vars

\* the second page of three cards sorted by caption
C22_SecondPageAfterSort ==
    /\ localPagination
    /\ itemsPerPage = 1
    /\ ContinueCompleted
    /\ loadedPages = 1
    /\ Len(heap) = 3
    /\ heap[1].caption = Str(<<"b">>)
    /\ heap[2].caption = Str(<<"a">>)
    /\ filteredCards = <<2, 1, 3>>
    /\ cards = <<2, 1>>

\* C23: under local pagination (here with itemsPerPage > 0), once start(),
\* continue() or applyFiltersAndSearch() has completed, remainingPages > 0
\* exactly when some filtered card is not in the window yet, and
\* remainingPages is never negative.
C23_RemainingPagesMeansMore ==
    (/\ localPagination
     /\ itemsPerPage > 0
     /\ Idle
     /\ ret.op \in {"start", "continue", "applyFiltersAndSearch"}
     /\ ret.outcome \in {"ok", "void"}) =>
        /\ Positive(remainingPages) <=> Len(cards) < Len(filteredCards)
        /\ remainingPages.num >= 0

\* C24: once a start() or a continue() has failed (usage error, failed
\* normalization of the characteristics, rejected generateCharacteristics or
\* fetchData), loading is false: loading is true only while a call is in
\* flight.
C24_LoadingClearedOnFailure ==
    /\ (pc = "idle" /\ ret.op \in {"start", "continue"} /\ ret.outcome # "ok") =>
          ~loading
    /\ loading => pc # "idle"

====
